---- MODULE Spec2Model ----
(***************************************************************************)
(* save-answersheets: the instruction-script interpreter of                *)
(* src/unnamed/part_001 (version 2021-09-16).                              *)
(*                                                                         *)
(* Strings are sequences of one-character strings, so that the code's      *)
(* regular expressions, startsWith/endsWith tests and path resolution are  *)
(* computed character by character.  A resolved (absolute) path is the     *)
(* sequence of its segments.                                               *)
(***************************************************************************)
EXTENDS Integers, Sequences, FiniteSets, TLC

(***************************************************************************)
(* Character classes                                                       *)
(***************************************************************************)
SpTab == {" ", "\t"}
CrLf == {"\r", "\n"}
Whitespace == SpTab \cup CrLf \cup {"\f"}

\* The characters of /[\0-\x1F\x7F-\x9F*?&<>"(grave)|':\\]/u that the alphabet of
\* the scripts below can contain.  NUL, US, DEL and APC stand for the code
\* points 0x00, 0x1F, 0x7F and 0x9F, GRAVE for the grave accent 0x60.
disallowedFilenameChars ==
    {"NUL", "US", "DEL", "APC", "\t", "\r", "\n", "\f",
     "*", "?", "&", "<", ">", "\"", "GRAVE", "|", "'", ":", "\\"}

Digits == {"0", "1", "2", "3", "4", "5", "6", "7", "8", "9"}

(***************************************************************************)
(* String helpers (String.prototype.startsWith / endsWith, Math.min)       *)
(***************************************************************************)
MinOf(S) == CHOOSE x \in S : \A y \in S : x <= y

StartsWith(s, p) == Len(p) <= Len(s) /\ SubSeq(s, 1, Len(p)) = p

EndsWith(s, p) == Len(p) <= Len(s) /\ SubSeq(s, Len(s) - Len(p) + 1, Len(s)) = p

\* The first index j >= i of s whose character is outside set (Len(s)+1 if none):
\* where a greedy character-class repetition started at i stops.
RECURSIVE SkipSet(_, _, _)
SkipSet(s, i, set) ==
    IF i > Len(s) \/ s[i] \notin set THEN i ELSE SkipSet(s, i + 1, set)

(***************************************************************************)
(* parseScript: split into lines, filter, split into tokens, verify        *)
(***************************************************************************)
\* The pieces of s between its delimiters, where D is the set of the indices
\* of s that lie in a delimiter (adjacent indices of D are one delimiter): as
\* String.prototype.split returns them, with an empty piece before a leading
\* and after a trailing delimiter.
PiecesFrom(s, D, starts) ==
    LET n == Len(s)
        endOf(i) == MinOf({j \in i..n : j = n \/ (j + 1) \in D})
        nth(m) == CHOOSE x \in starts : Cardinality({y \in starts : y < x}) = m - 1
        body == [m \in 1..Cardinality(starts) |-> SubSeq(s, nth(m), endOf(nth(m)))]
        lead == IF n = 0 \/ 1 \in D THEN << <<>> >> ELSE <<>>
        trail == IF n > 0 /\ n \in D THEN << <<>> >> ELSE <<>>
    IN lead \o body \o trail

\* The string, the delimiter indices and the indices where a piece starts are
\* each worked out once.
SplitAt(s, D) ==
    CHOOSE pieces \in
        UNION {{PiecesFrom(str, d, starts) :
                   starts \in {{i \in 1..Len(str) : i \notin d /\ (i = 1 \/ (i - 1) \in d)}}} :
               str \in {s}, d \in {D}} : TRUE

\* The indices of s inside a match of /[ \t]*[\r\n]\s*/: the blanks that run
\* up to a line end, the line end, and the whitespace that follows it.
LineEndIndices(s) ==
    {i \in 1..Len(s) :
        \/ LET j == SkipSet(s, i, SpTab) IN j <= Len(s) /\ s[j] \in CrLf
        \/ /\ s[i] \in Whitespace
           /\ \E k \in 1..(i - 1) : s[k] \in CrLf /\ SkipSet(s, k, Whitespace) > i}

\* script.split(/[ \t]*[\r\n]\s*/)
SplitLines(script) == SplitAt(script, LineEndIndices(script))

\* line.split(/[ \t]+/)
SplitTokens(line) == SplitAt(line, {i \in 1..Len(line) : line[i] \in SpTab})

\* lines.filter(line => line !== '' && !line.startsWith('#'))
KeepLine(line) == line # <<>> /\ ~StartsWith(line, <<"#">>)

W_zipname == <<"z", "i", "p", "-", "n", "a", "m", "e">>
W_cookies == <<"c", "o", "o", "k", "i", "e", "s">>
W_savefile == <<"s", "a", "v", "e", "-", "f", "i", "l", "e">>
W_savepdf == <<"s", "a", "v", "e", "-", "p", "d", "f">>
W_savetext == <<"s", "a", "v", "e", "-", "t", "e", "x", "t">>
W_as == <<"a", "s">>

\* disallowedFilenameChars.test(token)
HasDisallowedChar(token) == \E i \in 1..Len(token) : token[i] \in disallowedFilenameChars

\* The verbs that save something to a destination.
SaveVerbs == {W_savefile, W_savepdf, W_savetext}

\* The first word of the action at row 0 is not looked at.
verifyZipNameAnyVerb(action) ==
    IF Len(action) # 2 THEN "zip-name-form"
    ELSE IF HasDisallowedChar(action[2]) THEN "zip-name-chars"
    ELSE "ok"

\* verifyAction at row 0: "ok", or the kind of Error it throws.  action[k] of
\* the code is action[k + 1] here.
verifyZipName(action) ==
    IF action[1] # W_zipname THEN "first-not-zip-name"
    ELSE IF Len(action) # 2 THEN "zip-name-form"
    ELSE IF HasDisallowedChar(action[2]) THEN "zip-name-chars"
    ELSE "ok"

\* verifyAction of a cookies action
verifyCookies(action) == IF Len(action) # 2 THEN "cookies-form" ELSE "ok"

\* A save action whose destination is not examined.
verifySaveAnyFilename(action) ==
    IF action[1] \notin SaveVerbs THEN "unrecognised-action"
    ELSE IF Len(action) # 4 \/ action[3] # W_as THEN "save-form"
    ELSE "ok"

\* verifyAction of any other action: save-file, save-pdf, save-text
verifySave(action) ==
    IF action[1] \notin SaveVerbs THEN "unrecognised-action"
    ELSE IF Len(action) # 4 \/ action[3] # W_as THEN "save-form"
    ELSE IF HasDisallowedChar(action[4]) THEN "filename-chars"
    ELSE "ok"

\* The row of an action is not looked at: zip-name is accepted anywhere.
verifyActionAnyRow(action, row) ==
    IF action[1] = W_zipname THEN verifyZipName(action)
    ELSE IF action[1] = W_cookies THEN verifyCookies(action)
    ELSE verifySave(action)

\* verifyAction(action, row): "ok", or the kind of Error it throws.  row is the
\* 0-based index of the action among the retained lines.
verifyAction(action, row) ==
    IF row = 0 THEN verifyZipName(action)
    ELSE IF action[1] = W_cookies THEN verifyCookies(action)
    ELSE verifySave(action)

\* The retained lines of the script, tokenized.
Tokenize(script) ==
    CHOOSE tokens \in
        {[i \in 1..Len(kept) |-> SplitTokens(kept[i])] :
            kept \in {SelectSeq(SplitLines(script), KeepLine)}} : TRUE

\* parseScript(script): the actions, or the first Error of actions.forEach(verifyAction).
parseScript(script) ==
    CHOOSE parsed \in
        UNION {{IF bad = {} THEN [error |-> "", actions |-> actions]
                ELSE [error |-> verifyAction(actions[MinOf(bad)], MinOf(bad) - 1),
                      actions |-> <<>>] :
                   bad \in {{i \in 1..Len(actions) : verifyAction(actions[i], i - 1) # "ok"}}} :
               actions \in {Tokenize(script)}} : TRUE

(***************************************************************************)
(* path.resolve, path.dirname on POSIX paths                               *)
(***************************************************************************)
\* The segments of a path string.  Empty segments (doubled, leading or
\* trailing slashes) are dropped, as normalisation drops them anyway.
SplitSlash(s) ==
    SelectSeq(SplitAt(s, {i \in 1..Len(s) : s[i] = "/"}), LAMBDA seg : seg # <<>>)

\* Normalisation of a segment list: "" and "." are dropped, ".." removes the
\* segment before it (and is dropped at the root).
RECURSIVE NormalizeFrom(_, _, _)
NormalizeFrom(segs, i, acc) ==
    IF i > Len(segs) THEN acc
    ELSE IF segs[i] = <<>> \/ segs[i] = <<".">> THEN NormalizeFrom(segs, i + 1, acc)
    ELSE IF segs[i] = <<".", ".">>
         THEN NormalizeFrom(segs, i + 1, IF acc = <<>> THEN acc ELSE SubSeq(acc, 1, Len(acc) - 1))
    ELSE NormalizeFrom(segs, i + 1, Append(acc, segs[i]))

\* path.resolve(base, rel) for an absolute, normalised base.
PathResolve(base, rel) ==
    IF StartsWith(rel, <<"/">>) THEN NormalizeFrom(SplitSlash(rel), 1, <<>>)
    ELSE NormalizeFrom(base \o SplitSlash(rel), 1, <<>>)

\* path.dirname of a resolved path.
PathDirname(p) == IF p = <<>> THEN p ELSE SubSeq(p, 1, Len(p) - 1)

\* p is dir or lies below dir.
IsUnder(p, dir) == StartsWith(p, dir)

\* The process's working directory, /w.
Cwd == << <<"w">> >>

W_output == <<"o", "u", "t", "p", "u", "t">>

(***************************************************************************)
(* Buffer.from(blob, 'base64').toString('ascii')                           *)
(***************************************************************************)
B64Alphabet ==
    <<"A", "B", "C", "D", "E", "F", "G", "H", "I", "J", "K", "L", "M",
      "N", "O", "P", "Q", "R", "S", "T", "U", "V", "W", "X", "Y", "Z",
      "a", "b", "c", "d", "e", "f", "g", "h", "i", "j", "k", "l", "m",
      "n", "o", "p", "q", "r", "s", "t", "u", "v", "w", "x", "y", "z",
      "0", "1", "2", "3", "4", "5", "6", "7", "8", "9", "+", "/">>

\* The printable ASCII characters, code points 32..126.
AsciiPrintable ==
    <<" ", "!", "\"", "#", "$", "%", "&", "'", "(", ")", "*", "+", ",", "-", ".", "/",
      "0", "1", "2", "3", "4", "5", "6", "7", "8", "9", ":", ";", "<", "=", ">", "?",
      "@", "A", "B", "C", "D", "E", "F", "G", "H", "I", "J", "K", "L", "M", "N", "O",
      "P", "Q", "R", "S", "T", "U", "V", "W", "X", "Y", "Z", "[", "\\", "]", "^", "_",
      "GRAVE", "a", "b", "c", "d", "e", "f", "g", "h", "i", "j", "k", "l", "m", "n", "o",
      "p", "q", "r", "s", "t", "u", "v", "w", "x", "y", "z", "{", "|", "}", "~">>

B64Value(c) == (CHOOSE i \in 1..Len(B64Alphabet) : B64Alphabet[i] = c) - 1

\* The character of a byte under the 'ascii' encoding (the high bit is dropped).
AsciiChar(byte) ==
    LET code == byte % 128
    IN IF code >= 32 /\ code <= 126 THEN AsciiPrintable[code - 31]
       ELSE IF code = 127 THEN "DEL" ELSE IF code = 31 THEN "US" ELSE "NUL"

\* The sextets of a blob: characters outside the alphabet are ignored and the
\* first "=" ends the data.
B64Sextets(blob) ==
    LET stop == SkipSet(blob, 1, {c \in {blob[i] : i \in 1..Len(blob)} : c # "="})
        data == SubSeq(blob, 1, stop - 1)
        IsB64(c) == \E i \in 1..Len(B64Alphabet) : B64Alphabet[i] = c
    IN CHOOSE sextets \in
           {[i \in 1..Len(kept) |-> B64Value(kept[i])] : kept \in {SelectSeq(data, IsB64)}} : TRUE

RECURSIVE B64Bytes(_)
B64Bytes(v) ==
    IF Len(v) < 2 THEN <<>>
    ELSE LET b1 == (v[1] * 4 + v[2] \div 16) % 256
         IN IF Len(v) = 2 THEN <<b1>>
            ELSE LET b2 == ((v[2] % 16) * 16 + v[3] \div 4) % 256
                 IN IF Len(v) = 3 THEN <<b1, b2>>
                    ELSE <<b1, b2, ((v[3] % 4) * 64 + v[4]) % 256>>
                         \o B64Bytes(SubSeq(v, 5, Len(v)))

Base64ToAscii(blob) ==
    CHOOSE text \in
        UNION {{[i \in 1..Len(bytes) |-> AsciiChar(bytes[i])] : bytes \in {B64Bytes(sextets)}} :
               sextets \in {B64Sextets(blob)}} : TRUE

(***************************************************************************)
(* parseBytes                                                              *)
(***************************************************************************)
DigitValue(c) == CHOOSE d \in 0..9 : <<"0", "1", "2", "3", "4", "5", "6", "7", "8", "9">>[d + 1] = c

RECURSIVE DecimalValue(_)
DecimalValue(ds) ==
    IF ds = <<>> THEN 0
    ELSE DecimalValue(SubSeq(ds, 1, Len(ds) - 1)) * 10 + DigitValue(ds[Len(ds)])

ToUpper(c) == CASE c = "b" -> "B" [] c = "k" -> "K" [] c = "m" -> "M" [] c = "g" -> "G"
              [] OTHER -> c

\* The unit matched by (B|KB|MB|GB), case-insensitively, at index j: its text
\* as written, or <<>>.
UnitAt(s, j) ==
    IF j <= Len(s) /\ ToUpper(s[j]) = "B" THEN <<s[j]>>
    ELSE IF j + 1 <= Len(s) /\ ToUpper(s[j]) \in {"K", "M", "G"} /\ ToUpper(s[j + 1]) = "B"
         THEN <<s[j], s[j + 1]>>
    ELSE <<>>

\* units = {'B': 1, 'KB': 1024, 'MB': 1024 * 1024, 'GB': 1024 * 1024 * 1024}
UnitNames == {<<"B">>, <<"K", "B">>, <<"M", "B">>, <<"G", "B">>}

UnitBytes(u) == CASE u = <<"B">> -> 1 [] u = <<"K", "B">> -> 1024
                [] u = <<"M", "B">> -> 1024 * 1024 [] u = <<"G", "B">> -> 1024 * 1024 * 1024

\* parseBytes(bytesString): [error, nan, bytes].  /(\d+)(B|KB|MB|GB)/i is not
\* anchored: the leftmost run of digits that a unit follows matches.  The
\* multiplier is looked up under the unit as written, so a unit that is not
\* in upper case multiplies by undefined and the result is NaN.
parseBytes(bytesString) ==
    LET starts == {i \in 1..Len(bytesString) :
                      /\ bytesString[i] \in Digits
                      /\ UnitAt(bytesString, SkipSet(bytesString, i, Digits)) # <<>>}
    IN IF starts = {} THEN [error |-> TRUE, nan |-> FALSE, bytes |-> 0]
       ELSE LET i == MinOf(starts)
                j == SkipSet(bytesString, i, Digits)
                unit == UnitAt(bytesString, j)
            IN IF unit \in UnitNames
               THEN [error |-> FALSE, nan |-> FALSE,
                     bytes |-> DecimalValue(SubSeq(bytesString, i, j - 1)) * UnitBytes(unit)]
               ELSE [error |-> FALSE, nan |-> TRUE, bytes |-> 0]

(***************************************************************************)
(* The file system: a function from resolved paths to entries              *)
(***************************************************************************)
DirEntry == [kind |-> "dir", size |-> 0, content |-> <<>>]

\* A file with a fetched or rendered body, which its size stands for.
FileEntry(size) == [kind |-> "file", size |-> size, content |-> <<>>]

\* A file with the given text.
TextEntry(text) == [kind |-> "file", size |-> Len(text), content |-> text]

\* fs.access(filepath) succeeds
Exists(fs, p) == p \in DOMAIN fs

IsDir(fs, p) == p \in DOMAIN fs /\ fs[p].kind = "dir"

Put(fs, p, e) == [q \in DOMAIN fs \cup {p} |-> IF q = p THEN e ELSE fs[q]]

\* fs.mkdir(filepath) succeeds: the parent is an existing directory.
CanMkdir(fs, p) == ~Exists(fs, p) /\ IsDir(fs, PathDirname(p))

\* createPath(filepath): [error, fs]
createPath(fs, p) ==
    IF Exists(fs, p) THEN [error |-> FALSE, fs |-> fs]
    ELSE IF CanMkdir(fs, p) THEN [error |-> FALSE, fs |-> Put(fs, p, DirEntry)]
    ELSE [error |-> TRUE, fs |-> fs]

\* A file can be opened for writing at p: the parent is a directory and p is
\* not itself a directory.
CanWrite(fs, p) == IsDir(fs, PathDirname(p)) /\ ~IsDir(fs, p)

\* deleteFolder(filepath): fs.rmdirSync(filepath, {recursive: true})
deleteFolder(fs, dir) == [q \in {r \in DOMAIN fs : ~IsUnder(r, dir)} |-> fs[q]]

\* getFileSize(filepath)
getFileSize(fs, p) == fs[p].size

\* The paths whose entry differs between two file systems.
Changed(fsA, fsB) ==
    {p \in DOMAIN fsA \cup DOMAIN fsB :
        \/ p \notin DOMAIN fsA
        \/ p \notin DOMAIN fsB
        \/ fsA[p] # fsB[p]}

(***************************************************************************)
(* Inputs: instruction scripts, command-line options, prior output         *)
(***************************************************************************)
Sp == <<" ">>
Nl == <<"\n">>
Slash == <<"/">>

N_X == <<"X">>
U_alice == <<"a", "l", "i", "c", "e">>
U_bob == <<"b", "o", "b">>
N_responses == <<"r", "e", "s", "p", "o", "n", "s", "e", "s", ".", "p", "d", "f">>
N_att == <<"a", "t", "t", ".", "t", "x", "t">>
N_note == <<"n", "o", "t", "e", ".", "t", "x", "t">>
N_evil == <<"e", "v", "i", "l", ".", "t", "x", "t">>
N_star == <<"a", "*", "b", ".", "t", "x", "t">>
N_c == <<"c", ".", "t", "x", "t">>
DotDot == <<".", ".">>
UrlA == <<"h", "t", "t", "p", ":", "/", "/", "m", "/", "a">>
UrlB == <<"h", "t", "t", "p", ":", "/", "/", "m", "/", "b">>
HelloWorld == <<"H", "e", "l", "l", "o", "_", "W", "o", "r", "l", "d">>
\* a text with several underscores
Underscores == <<"_", "a", "_", "_", "b">>
\* base64 of "a=1" and of "b=2"
Blob1 == <<"Y", "T", "0", "x">>
Blob2 == <<"Y", "j", "0", "y">>
\* base64 of "a=1; k=v=w"
Blob3 == <<"Y", "T", "0", "x", "O", "y", "B", "r", "P", "X", "Y", "9", "d", "w", "=", "=">>

ZipLine == W_zipname \o Sp \o N_X \o Nl
CookiesLine(blob) == W_cookies \o Sp \o blob \o Nl
SaveLine(verb, source, dest) == verb \o Sp \o source \o Sp \o W_as \o Sp \o dest \o Nl
In(dir, name) == dir \o Slash \o name

\* cookies, a rendered document, cookies again, an attachment
ScriptCookies ==
    ZipLine \o CookiesLine(Blob1) \o SaveLine(W_savepdf, UrlA, In(U_alice, N_responses))
        \o CookiesLine(Blob2) \o SaveLine(W_savefile, UrlB, In(U_bob, N_att))

\* an attempt whose attachment is listed before its responses.pdf
ScriptAttachmentFirst ==
    ZipLine \o SaveLine(W_savefile, UrlB, In(U_alice, N_att))
        \o SaveLine(W_savepdf, UrlA, In(U_alice, N_responses))

\* an attempt whose responses.pdf is listed first, and a second subject
ScriptPdfFirst ==
    ZipLine \o SaveLine(W_savepdf, UrlA, In(U_alice, N_responses))
        \o SaveLine(W_savetext, HelloWorld, In(U_alice, N_note))
        \o SaveLine(W_savepdf, UrlB, In(U_bob, N_responses))

\* destinations with a ".." segment
ScriptTraversal ==
    ZipLine \o SaveLine(W_savetext, HelloWorld, In(DotDot, N_evil))
        \o SaveLine(W_savepdf, UrlA, In(DotDot, N_responses))

\* an absolute destination
ScriptAbsolute ==
    ZipLine \o SaveLine(W_savetext, HelloWorld, Slash \o N_evil)

\* a destination with a disallowed character, between two valid directives
ScriptBadChar ==
    ZipLine \o SaveLine(W_savefile, UrlB, In(U_alice, N_att))
        \o SaveLine(W_savefile, UrlA, In(U_alice, N_star))
        \o SaveLine(W_savetext, HelloWorld, In(U_alice, N_note))

\* the first retained line is not zip-name
ScriptNoZipName ==
    <<"#", "c">> \o Nl \o Nl \o SaveLine(W_savefile, UrlA, In(U_alice, N_att)) \o ZipLine

\* nothing is left after the comments and blank lines are dropped
ScriptEmpty == <<"#", "c">> \o Nl \o <<" ">> \o Nl

\* comments, blank lines, CR LF line ends, tabs and trailing blanks
ScriptLayout ==
    <<"#", "c", "\r", "\n", " ", "\r", "\n">> \o W_zipname \o Sp \o N_X \o <<" ", "\r", "\n", "\t">>
        \o W_savetext \o <<"\t">> \o HelloWorld \o <<" ", " ">> \o W_as \o Sp \o N_note
        \o <<"\r", "\n">>

\* a destination two directories deep
ScriptNested ==
    ZipLine \o SaveLine(W_savefile, UrlA, In(U_alice, In(U_bob, N_c)))

\* a zip name that leads out of the output directory
ScriptZipTraversal ==
    W_zipname \o Sp \o In(DotDot, N_X) \o Nl \o SaveLine(W_savetext, HelloWorld, N_note)

\* a zip name with a character that is neither a letter, a digit, -, _ nor .
ScriptZipTilde ==
    W_zipname \o Sp \o N_X \o <<"~">> \o Nl \o SaveLine(W_savetext, Underscores, N_note)

\* a second zip-name line after a directive
ScriptTwoZipNames ==
    ZipLine \o SaveLine(W_savetext, HelloWorld, N_note) \o ZipLine

\* a cookies line first, and no zip-name line
ScriptCookiesFirst ==
    CookiesLine(Blob1) \o SaveLine(W_savetext, HelloWorld, N_note)

\* a save-pdf line first, and no zip-name line
ScriptPdfAtRowZero ==
    SaveLine(W_savepdf, UrlA, In(U_alice, N_responses))

\* a comment, then a save-text line, then the zip-name line
ScriptTextAtRowZero ==
    <<"#", "c">> \o Nl \o SaveLine(W_savetext, HelloWorld, N_note) \o ZipLine

\* two cookies in one blob, the value of the second with "=" in it
ScriptCookieValue ==
    ZipLine \o CookiesLine(Blob3) \o SaveLine(W_savepdf, UrlA, In(U_alice, N_responses))

\* The instruction files a run can be given, by name.
InstructionFiles ==
    {"cookies", "attachment-first", "pdf-first", "traversal", "absolute", "bad-char",
     "no-zip-name", "empty", "layout", "nested", "zip-traversal", "zip-tilde",
     "two-zip-names", "cookies-first", "pdf-at-row-zero", "text-at-row-zero",
     "cookie-value"}

\* The content of an instruction file.
FileContent(name) ==
    CASE name = "cookies" -> ScriptCookies
      [] name = "attachment-first" -> ScriptAttachmentFirst
      [] name = "pdf-first" -> ScriptPdfFirst
      [] name = "traversal" -> ScriptTraversal
      [] name = "absolute" -> ScriptAbsolute
      [] name = "bad-char" -> ScriptBadChar
      [] name = "no-zip-name" -> ScriptNoZipName
      [] name = "empty" -> ScriptEmpty
      [] name = "layout" -> ScriptLayout
      [] name = "nested" -> ScriptNested
      [] name = "zip-traversal" -> ScriptZipTraversal
      [] name = "zip-tilde" -> ScriptZipTilde
      [] name = "two-zip-names" -> ScriptTwoZipNames
      [] name = "cookies-first" -> ScriptCookiesFirst
      [] name = "pdf-at-row-zero" -> ScriptPdfAtRowZero
      [] name = "text-at-row-zero" -> ScriptTextAtRowZero
      [] name = "cookie-value" -> ScriptCookieValue

\* --download-only
DownloadOnlyValues == {<<>>, U_alice}

\* --redownload-if-smaller
RedownloadValues == {<<>>, <<"5", "K", "B">>, <<"5", "k", "b">>, <<"5">>}

\* The sizes of a fetched body or a rendered document.
BodySizes == {2000, 6000}

OutputDir == Cwd \o <<W_output>>
BaseDir == OutputDir \o <<N_X>>

\* A file system holding the given files ([path, size]) and their ancestors.
MkFs(files) ==
    LET paths == {f.path : f \in files}
        dirs == {SubSeq(p, 1, n) : p \in paths \cup {Cwd}, n \in 0..Len(Cwd)}
                   \cup UNION {{SubSeq(p, 1, n) : n \in 0..(Len(p) - 1)} : p \in paths}
    IN [q \in dirs \cup paths |->
           IF q \in paths THEN FileEntry((CHOOSE f \in files : f.path = q).size)
           ELSE DirEntry]

\* The output of an earlier run for both subjects, alice's responses.pdf of size sz.
PriorFiles(sz) ==
    {[path |-> BaseDir \o <<U_alice, N_responses>>, size |-> sz],
     [path |-> BaseDir \o <<U_alice, N_att>>, size |-> 2000],
     [path |-> BaseDir \o <<U_alice, N_note>>, size |-> 11],
     [path |-> BaseDir \o <<U_bob, N_responses>>, size |-> 6000],
     [path |-> BaseDir \o <<U_bob, N_att>>, size |-> 2000]}

\* Files beside the output directory.
StrayFiles ==
    {[path |-> OutputDir \o <<N_responses>>, size |-> 2000],
     [path |-> OutputDir \o <<N_att>>, size |-> 2000],
     [path |-> BaseDir \o <<U_alice, N_att>>, size |-> 2000]}

InitialFileSystems ==
    {MkFs({}), MkFs(PriorFiles(2000)), MkFs(PriorFiles(5120)), MkFs(PriorFiles(6000)),
     MkFs(StrayFiles)}

(***************************************************************************)
(* State                                                                   *)
(***************************************************************************)
VARIABLES
    instructionFile, \* options._[0], the name of the instruction file
    downloadOnly,   \* options['download-only']
    redownloadArg,  \* options['redownload-if-smaller'] as given
    skipPdfs,       \* options['skip-pdfs']
    threshold,      \* options['redownload-if-smaller'] after main has parsed it
    pc,             \* where the process is
    error,          \* the Error that ended the run, "" if none
    row,            \* the number of actions shifted off the queue
    filepath,       \* the output directory of the run
    cookies,        \* the cookie string of readAndProcessInstructionFile
    browser,        \* the puppeteer browser: "none", "open", "closed"
    fs,             \* the file system
    fs0,            \* the file system when the run started
    directives,     \* the actions parseScript returned, before any shift
    log,            \* what each save directive of this run decided and did
    prev,           \* how the previous run under the same script went
    closing         \* the files whose write stream has finished and is being closed

vars == <<instructionFile, downloadOnly, redownloadArg, skipPdfs, threshold, pc, error, row,
          filepath, cookies, browser, fs, fs0, directives, log, prev, closing>>

NoThreshold == [set |-> FALSE, nan |-> FALSE, bytes |-> 0]

Init ==
    /\ instructionFile \in InstructionFiles
    /\ downloadOnly \in DownloadOnlyValues
    /\ redownloadArg \in RedownloadValues
    /\ skipPdfs \in BOOLEAN
    /\ fs \in InitialFileSystems
    /\ fs0 = fs
    /\ directives = <<>>
    /\ threshold = NoThreshold
    /\ pc = "main"
    /\ error = ""
    /\ row = 0
    /\ filepath = <<>>
    /\ cookies = <<>>
    /\ browser = "none"
    /\ log = <<>>
    /\ prev = "none"
    /\ closing = {}

(***************************************************************************)
(* checkPath                                                               *)
(***************************************************************************)
\* '/responses.pdf'
SlashResponses == Slash \o N_responses

\* The comparison taken as <=.
LessThanOrEqual(size, limit) == ~limit.nan /\ size <= limit.bytes

\* size < options['redownload-if-smaller']: a comparison with NaN is false.
LessThan(size, limit) == ~limit.nan /\ size < limit.bytes

\* The existence of the file is not looked at.
checkExistingAlwaysFetch(f, filename, relativePath) ==
    [fetch |-> TRUE, filename |-> filename, decision |-> "Fetch", fs |-> f]

\* The else branch of checkPath: no subject filter is set.
checkExisting(f, filename, relativePath) ==
    IF Exists(f, filename) THEN
        IF /\ threshold.set
           /\ EndsWith(relativePath, SlashResponses)
           /\ LessThan(getFileSize(f, filename), threshold)
        THEN [fetch |-> TRUE, filename |-> filename, decision |-> "Fetch",
              fs |-> deleteFolder(f, PathDirname(filename))]
        ELSE [fetch |-> FALSE, filename |-> filename, decision |-> "Skip-AlreadyPresent", fs |-> f]
    ELSE [fetch |-> TRUE, filename |-> filename, decision |-> "Fetch", fs |-> f]

\* The subject filter is not looked at.
checkPathIgnoresFilter(f, basePath, relativePath) ==
    checkExisting(f, PathResolve(basePath, relativePath), relativePath)

\* The file of the subject of interest is skipped when it exists.
checkPathSkipsExisting(f, basePath, relativePath) ==
    IF downloadOnly # <<>> /\ ~StartsWith(relativePath, downloadOnly \o SlashResponses)
    THEN [fetch |-> FALSE, filename |-> PathResolve(basePath, relativePath),
          decision |-> "Skip-NotOfInterest", fs |-> f]
    ELSE checkExisting(f, PathResolve(basePath, relativePath), relativePath)

\* checkPath(basePath, relativePath) on file system f: whether a filename is
\* returned (rather than ''), the filename, the decision and the file system
\* it leaves.
checkPath(f, basePath, relativePath) ==
    IF downloadOnly # <<>> THEN
        IF ~StartsWith(relativePath, downloadOnly \o SlashResponses)
        THEN [fetch |-> FALSE, filename |-> PathResolve(basePath, relativePath),
              decision |-> "Skip-NotOfInterest", fs |-> f]
        ELSE [fetch |-> TRUE, filename |-> PathResolve(basePath, relativePath),
              decision |-> "Fetch", fs |-> f]
    ELSE checkExisting(f, PathResolve(basePath, relativePath), relativePath)

(***************************************************************************)
(* parseCookies                                                            *)
(***************************************************************************)
\* urlUtils.parse(urlString).hostname: what follows "//" up to the port, the
\* path, the query or the fragment; <<>> stands for null.
Hostname(urlString) ==
    LET slashes == {i \in 1..(Len(urlString) - 1) : urlString[i] = "/" /\ urlString[i + 1] = "/"}
    IN IF slashes = {} THEN <<>>
       ELSE LET from == MinOf(slashes) + 2
                Host(c) == c \notin {"/", ":", "?", "#"}
                to == SkipSet(urlString, from,
                              {c \in {urlString[i] : i \in 1..Len(urlString)} : Host(c)})
            IN SubSeq(urlString, from, to - 1)

\* cookiesHeader.split(/ *; */): the pieces between the semicolons, without
\* the blanks that run up to a semicolon or follow one.
SplitCookies(cookiesHeader) ==
    LET n == Len(cookiesHeader)
        semis == {i \in 1..n : cookiesHeader[i] = ";"}
        cuts == {0} \cup semis
        nth(m) == CHOOSE x \in cuts : Cardinality({y \in cuts : y < x}) = m - 1
        next(c) == MinOf({q \in semis \cup {n + 1} : q > c})
        lo(c) == IF c = 0 THEN 1 ELSE SkipSet(cookiesHeader, c + 1, {" "})
        hi(c) == IF next(c) = n + 1 THEN n
                 ELSE CHOOSE j \in (lo(c) - 1)..(next(c) - 1) :
                        /\ j = lo(c) - 1 \/ cookiesHeader[j] # " "
                        /\ \A k \in (j + 1)..(next(c) - 1) : cookiesHeader[k] = " "
    IN [m \in 1..Cardinality(cuts) |-> SubSeq(cookiesHeader, lo(nth(m)), hi(nth(m)))]

\* bits = cookie.split('=', 2); {name: bits[0], value: bits[1], domain}: the
\* limit keeps the first two pieces, so the value ends at the second "=";
\* without "=" bits[1] is undefined.
CookieObject(cookie, hostname) ==
    LET eqs == {i \in 1..Len(cookie) : cookie[i] = "="}
    IN IF eqs = {}
       THEN [name |-> cookie, value |-> <<>>, defined |-> FALSE, domain |-> hostname]
       ELSE LET first == MinOf(eqs)
                second == MinOf({i \in eqs \cup {Len(cookie) + 1} : i > first})
            IN [name |-> SubSeq(cookie, 1, first - 1),
                value |-> SubSeq(cookie, first + 1, second - 1),
                defined |-> TRUE, domain |-> hostname]

\* parseCookies(cookiesHeader, urlString)
parseCookies(cookiesHeader, urlString) ==
    LET pieces == SplitCookies(cookiesHeader)
    IN [i \in 1..Len(pieces) |-> CookieObject(pieces[i], Hostname(urlString))]

\* The cookie objects saveUrlAsPdf hands to page.setCookie, in order.
SetCookies(cookieString, urlString) ==
    IF cookieString # <<>> THEN parseCookies(cookieString, urlString) ELSE <<>>

(***************************************************************************)
(* main and readAndProcessInstructionFile, one action per step             *)
(***************************************************************************)
\* displayErrorAndExit: the process exits with status 1.
Fail(e) == pc' = "exit1" /\ error' = e

\* The record of one save directive: what checkPath decided, the paths whose
\* entry the directive changed, and the network or render operation it
\* started ("none", "get" or "render") with the cookie string it was given,
\* and the cookie objects a render set on its page.
\* existed and sizeBefore describe the file system the directive found:
\* whether the destination existed, and its size; deleted are the paths
\* checkPath removed.
LogEntry(action, cp, after, net, done) ==
    [row |-> row, verb |-> action[1], source |-> action[2], dest |-> action[4],
     filename |-> cp.filename, decision |-> cp.decision,
     existed |-> Exists(fs, cp.filename),
     sizeBefore |-> IF Exists(fs, cp.filename) THEN getFileSize(fs, cp.filename) ELSE 0,
     deleted |-> DOMAIN fs \ DOMAIN cp.fs,
     changed |-> Changed(fs, after),
     net |-> net, cookies |-> cookies, done |-> done,
     setCookies |-> IF net = "render" THEN SetCookies(cookies, action[2]) ELSE <<>>]

\* main: the size option is parsed before the instruction file is read.
Main ==
    /\ pc = "main"
    /\ IF redownloadArg # <<>>
       THEN LET r == parseBytes(redownloadArg)
            IN IF r.error
               THEN Fail("invalid-size") /\ UNCHANGED threshold
               ELSE /\ threshold' = [set |-> TRUE, nan |-> r.nan, bytes |-> r.bytes]
                    /\ pc' = "read"
                    /\ UNCHANGED error
       ELSE /\ threshold' = NoThreshold
            /\ pc' = "read"
            /\ UNCHANGED error
    /\ UNCHANGED <<instructionFile, downloadOnly, redownloadArg, skipPdfs, row, filepath,
                   cookies, browser, fs, fs0, directives, log, prev, closing>>

\* The queue the code shifts its actions off: the parsed actions that are left.
actions == SubSeq(directives, row + 1, Len(directives))

\* The script is read; parsed is what parseScript makes of it.  The zip-name
\* action is shifted off and names the output directory.
ReadParsed(parsed) ==
    IF parsed.error # ""
    THEN Fail(parsed.error) /\ UNCHANGED <<row, filepath, directives>>
    ELSE IF Len(parsed.actions) = 0
    THEN Fail("script-empty") /\ UNCHANGED <<row, filepath, directives>>
    ELSE /\ directives' = parsed.actions
         /\ filepath' = PathResolve(PathResolve(Cwd, W_output), parsed.actions[1][2])
         /\ row' = 1
         /\ pc' = "mkdirs"
         /\ UNCHANGED error

\* What parseScript makes of each instruction file.
ParsedFiles == [name \in InstructionFiles |-> parseScript(FileContent(name))]

ReadInstructions ==
    /\ pc = "read"
    /\ ReadParsed(ParsedFiles[instructionFile])
    /\ UNCHANGED <<instructionFile, downloadOnly, redownloadArg, skipPdfs, threshold, cookies,
                   browser, fs, fs0, log, prev, closing>>

\* createPath(path.resolve('output')); createPath(filepath)
CreateOutputDirs ==
    /\ pc = "mkdirs"
    /\ LET first == createPath(fs, PathResolve(Cwd, W_output))
           second == createPath(first.fs, filepath)
       IN IF first.error THEN Fail("mkdir") /\ UNCHANGED fs
          ELSE /\ fs' = second.fs
               /\ IF second.error THEN Fail("mkdir") ELSE pc' = "launch" /\ UNCHANGED error
    /\ UNCHANGED <<instructionFile, downloadOnly, redownloadArg, skipPdfs, threshold, row,
                   filepath, cookies, browser, fs0, directives, log, prev, closing>>

\* puppeteer.launch()
LaunchBrowser ==
    /\ pc = "launch"
    /\ browser' = "open"
    /\ pc' = "loop"
    /\ UNCHANGED <<instructionFile, downloadOnly, redownloadArg, skipPdfs, threshold, error, row,
                   filepath, cookies, fs, fs0, directives, log, prev, closing>>

\* The rest of a loop iteration: the action is off the queue.
Shifted ==
    /\ row' = row + 1
    /\ UNCHANGED <<instructionFile, downloadOnly, redownloadArg, skipPdfs, threshold, filepath,
                   browser, fs0, directives, prev>>

Continue == pc' = "loop" /\ UNCHANGED error

\* The directive leaves file system after behind and is recorded in the log.
Leaves(a, cp, after, net, done) ==
    \E left \in {after} :
        /\ fs' = left
        /\ log' = Append(log, LogEntry(a, cp, left, net, done))

\* The directory of the destination is made although the directive is skipped.
SkippedMakesDirectory(a, cp) ==
    Leaves(a, cp, createPath(cp.fs, PathDirname(cp.filename)).fs, "none", FALSE) /\ Continue

\* checkPath returned '': the directive is skipped.
Skipped(a, cp) == Leaves(a, cp, cp.fs, "none", FALSE) /\ Continue

\* The size of what a response that fails partway has written.
PartialSizes == {1000}

\* The process waits for a promise that nothing will settle.
Wait == pc' = "waiting" /\ UNCHANGED error

\* saveUrlAsFile(action[1], filename, cookies), mk the outcome of its
\* createPath(path.dirname(filename)).
saveUrlAsFile(a, cp, mk) ==
    IF mk.error THEN Leaves(a, cp, mk.fs, "none", FALSE) /\ Fail("mkdir") /\ UNCHANGED closing
    ELSE IF ~CanWrite(mk.fs, cp.filename)
    THEN \* the write stream cannot open the file: its 'error' event has no
         \* listener and ends the process, the request already made
         Leaves(a, cp, mk.fs, "get", FALSE) /\ Fail("write-stream") /\ UNCHANGED closing
    ELSE \/ \* 'finish': the body is written, resolve() follows at once while
            \* the descriptor is closed in the background (close() returns
            \* nothing to await)
            \E n \in BodySizes :
              /\ Leaves(a, cp, Put(mk.fs, cp.filename, FileEntry(n)), "get", TRUE)
              /\ Continue
              /\ closing' = closing \cup {cp.filename}
         \/ \* req.on('error', reject): the file the stream has opened (created
            \* or truncated) stays, empty
            /\ Leaves(a, cp, Put(mk.fs, cp.filename, FileEntry(0)), "get", FALSE)
            /\ Fail("request")
            /\ UNCHANGED closing
         \/ \* req.on('error', reject) and the process exits before the stream
            \* has opened the file
            /\ Leaves(a, cp, mk.fs, "get", FALSE)
            /\ Fail("request")
            /\ UNCHANGED closing
         \/ \* the response ends early ('aborted', no 'end'): the stream is
            \* never ended, 'finish' never comes and the promise stays pending
            \E n \in PartialSizes :
              /\ Leaves(a, cp, Put(mk.fs, cp.filename, FileEntry(n)), "get", FALSE)
              /\ Wait
              /\ UNCHANGED closing
         \/ \* a write of the stream fails: an 'error' event without listener
            \E n \in PartialSizes :
              /\ Leaves(a, cp, Put(mk.fs, cp.filename, FileEntry(n)), "get", FALSE)
              /\ Fail("write-stream")
              /\ UNCHANGED closing

\* case 'save-file', cp the outcome of checkPath(filepath, action[3])
SaveFileCase(a, cp) ==
    IF ~cp.fetch THEN Skipped(a, cp) /\ UNCHANGED closing
    ELSE \E mk \in {createPath(cp.fs, PathDirname(cp.filename))} : saveUrlAsFile(a, cp, mk)

\* case 'save-file': checkPath, then saveUrlAsFile.
SaveFile ==
    /\ pc = "loop" /\ actions # <<>> /\ Head(actions)[1] = W_savefile
    /\ \E a \in {Head(actions)} :
          \E cp \in {checkPath(fs, filepath, a[4])} : SaveFileCase(a, cp)
    /\ Shifted
    /\ UNCHANGED cookies

\* The rejection of page.goto or page.pdf is swallowed and the loop goes on.
saveUrlAsPdfCarriesOn(a, cp, f) ==
    \/ /\ CanWrite(f, cp.filename)
       /\ \E n \in BodySizes :
             Leaves(a, cp, Put(f, cp.filename, FileEntry(n)), "render", TRUE) /\ Continue
    \/ Leaves(a, cp, f, "render", FALSE) /\ Continue

\* saveUrlAsPdf(browser, action[1], pdfFilename, cookies) on file system f
saveUrlAsPdf(a, cp, f) ==
    \/ /\ CanWrite(f, cp.filename)
       /\ \E n \in BodySizes :
             Leaves(a, cp, Put(f, cp.filename, FileEntry(n)), "render", TRUE) /\ Continue
    \/ \* page.goto or page.pdf rejects
       Leaves(a, cp, f, "render", FALSE) /\ Fail("render")

\* The skip-pdfs option is not looked at.
SavePdfFetchAlways(a, cp, mk) ==
    IF mk.error THEN Leaves(a, cp, mk.fs, "none", FALSE) /\ Fail("mkdir")
    ELSE saveUrlAsPdf(a, cp, mk.fs)

\* The body of if (pdfFilename !== ''), mk the outcome of its createPath.
SavePdfFetch(a, cp, mk) ==
    IF mk.error THEN Leaves(a, cp, mk.fs, "none", FALSE) /\ Fail("mkdir")
    ELSE IF skipPdfs THEN Leaves(a, cp, mk.fs, "none", FALSE) /\ Continue
    ELSE saveUrlAsPdf(a, cp, mk.fs)

\* case 'save-pdf', cp the outcome of checkPath(filepath, action[3])
SavePdfCase(a, cp) ==
    IF ~cp.fetch THEN Skipped(a, cp)
    ELSE \E mk \in {createPath(cp.fs, PathDirname(cp.filename))} : SavePdfFetch(a, cp, mk)

\* case 'save-pdf': checkPath, createPath, then saveUrlAsPdf unless skip-pdfs.
SavePdf ==
    /\ pc = "loop" /\ actions # <<>> /\ Head(actions)[1] = W_savepdf
    /\ \E a \in {Head(actions)} :
          \E cp \in {checkPath(fs, filepath, a[4])} : SavePdfCase(a, cp)
    /\ Shifted
    /\ UNCHANGED <<cookies, closing>>

\* rawContent.replace('_', ' '): only the first underscore is replaced.
UnderscoresToSpacesOnce(rawContent) ==
    [i \in 1..Len(rawContent) |->
        IF rawContent[i] = "_" /\ \A k \in 1..(i - 1) : rawContent[k] # "_" THEN " "
        ELSE rawContent[i]]

\* rawContent.replace(/_/g, ' ')
UnderscoresToSpaces(rawContent) ==
    [i \in 1..Len(rawContent) |-> IF rawContent[i] = "_" THEN " " ELSE rawContent[i]]

\* saveTextAsFile(action[1], textFilename), mk the outcome of its createPath.
saveTextAsFile(a, cp, mk) ==
    IF mk.error THEN Leaves(a, cp, mk.fs, "none", FALSE) /\ Fail("mkdir")
    ELSE IF ~CanWrite(mk.fs, cp.filename)
    THEN Leaves(a, cp, mk.fs, "none", FALSE) /\ Fail("write-file")
    ELSE Leaves(a, cp, Put(mk.fs, cp.filename, TextEntry(UnderscoresToSpaces(a[2]))),
                "none", TRUE) /\ Continue

\* case 'save-text', cp the outcome of checkPath(filepath, action[3])
SaveTextCase(a, cp) ==
    IF ~cp.fetch THEN Skipped(a, cp)
    ELSE \E mk \in {createPath(cp.fs, PathDirname(cp.filename))} : saveTextAsFile(a, cp, mk)

\* case 'save-text': checkPath, then saveTextAsFile.
SaveText ==
    /\ pc = "loop" /\ actions # <<>> /\ Head(actions)[1] = W_savetext
    /\ \E a \in {Head(actions)} :
          \E cp \in {checkPath(fs, filepath, a[4])} : SaveTextCase(a, cp)
    /\ Shifted
    /\ UNCHANGED <<cookies, closing>>

\* The decoded blob is added to the cookie string in force.
DecodeCookiesMerged(current, blob) ==
    IF current = <<>> THEN Base64ToAscii(blob) ELSE current \o <<";">> \o Base64ToAscii(blob)

\* cookies = (Buffer.from(action[1], 'base64')).toString('ascii')
DecodeCookies(current, blob) == Base64ToAscii(blob)

\* case 'cookies': the cookie string is replaced by the decoded blob.
Cookies ==
    /\ pc = "loop" /\ actions # <<>> /\ Head(actions)[1] = W_cookies
    /\ cookies' = DecodeCookies(cookies, Head(actions)[2])
    /\ Continue
    /\ Shifted
    /\ UNCHANGED <<fs, log, closing>>

\* fs.close of a finished write stream completes, whatever the process is
\* doing by then.
StreamClosed ==
    /\ pc \in {"loop", "zip", "waiting"}
    /\ \E p \in closing : closing' = closing \ {p}
    /\ UNCHANGED <<instructionFile, downloadOnly, redownloadArg, skipPdfs, threshold, pc, error,
                   row, filepath, cookies, browser, fs, fs0, directives, log, prev>>

\* The queue is empty and the archive is made with the browser still open.
CloseBrowserNotAwaited ==
    /\ pc = "loop" /\ actions = <<>>
    /\ pc' = "zip"
    /\ UNCHANGED <<instructionFile, downloadOnly, redownloadArg, skipPdfs, threshold, error, row,
                   filepath, cookies, browser, fs, fs0, directives, log, prev, closing>>

\* The queue is empty: browser.close()
CloseBrowser ==
    /\ pc = "loop" /\ actions = <<>>
    /\ browser' = "closed"
    /\ pc' = "zip"
    /\ UNCHANGED <<instructionFile, downloadOnly, redownloadArg, skipPdfs, threshold, error, row,
                   filepath, cookies, fs, fs0, directives, log, prev, closing>>

\* filepath + '.zip'
ZipPath(p) == Append(PathDirname(p), p[Len(p)] \o <<".", "z", "i", "p">>)

\* The files below a directory.
FilesUnder(f, directory) ==
    {q \in DOMAIN f : q # directory /\ IsUnder(q, directory) /\ f[q].kind = "file"}

\* archive.directory(directory, false): the entries carry no prefix.
ArchiveOfNoPrefix(f, directory) ==
    LET Name(q) == SubSeq(q, Len(directory) + 1, Len(q))
    IN [n \in {Name(q) : q \in FilesUnder(f, directory)} |->
           f[CHOOSE q \in FilesUnder(f, directory) : Name(q) = n]]

\* archive.directory(directory, path.basename(directory)): the files below
\* the directory, each under the directory's own name and then its path
\* relative to the directory.
ArchiveOf(f, directory) ==
    LET Name(q) == <<directory[Len(directory)]>> \o SubSeq(q, Len(directory) + 1, Len(q))
    IN [n \in {Name(q) : q \in FilesUnder(f, directory)} |->
           f[CHOOSE q \in FilesUnder(f, directory) : Name(q) = n]]

\* The zip file of an archive.
ArchiveEntry(entries) ==
    [kind |-> "file", size |-> Cardinality(DOMAIN entries), content |-> <<>>, archive |-> entries]

\* zipDirectory(filepath, filepath + '.zip'), then process.exit(0).
ZipDirectory ==
    /\ pc = "zip"
    /\ fs' = Put(fs, ZipPath(filepath), ArchiveEntry(ArchiveOf(fs, filepath)))
    /\ pc' = "exit0"
    /\ UNCHANGED <<instructionFile, downloadOnly, redownloadArg, skipPdfs, threshold, error, row,
                   filepath, cookies, browser, fs0, directives, log, prev, closing>>

\* How a run that has ended is remembered by the next one.
Summary ==
    IF pc = "exit0" /\ downloadOnly = <<>> /\ redownloadArg = <<>>
    THEN IF skipPdfs THEN "plain-skip-pdfs" ELSE "plain"
    ELSE "other"

\* The command is run again with the same instruction file, on the file
\* system the earlier run left.
Rerun ==
    /\ pc \in {"exit0", "exit1"}
    /\ prev' = Summary
    /\ downloadOnly' \in DownloadOnlyValues
    /\ redownloadArg' \in RedownloadValues
    /\ skipPdfs' \in BOOLEAN
    /\ fs0' = fs
    /\ UNCHANGED fs
    /\ directives' = <<>>
    /\ threshold' = NoThreshold
    /\ pc' = "main"
    /\ error' = ""
    /\ row' = 0
    /\ filepath' = <<>>
    /\ cookies' = <<>>
    /\ browser' = "none"
    /\ log' = <<>>
    /\ closing' = {}
    /\ UNCHANGED instructionFile

Next ==
    \/ Main
    \/ ReadInstructions
    \/ CreateOutputDirs
    \/ LaunchBrowser
    \/ SaveFile
    \/ SavePdf
    \/ SaveText
    \/ Cookies
    \/ StreamClosed
    \/ CloseBrowser
    \/ ZipDirectory
    \/ Rerun

Spec == Init /\ [][Next]_vars

(***************************************************************************)
(* One run, in which every operation that can complete or fail does so     *)
(***************************************************************************)
\* The steps of one process.
NextRun ==
    \/ Main
    \/ ReadInstructions
    \/ CreateOutputDirs
    \/ LaunchBrowser
    \/ SaveFile
    \/ SavePdf
    \/ SaveText
    \/ Cookies
    \/ StreamClosed
    \/ CloseBrowser
    \/ ZipDirectory

\* Every awaited operation settles when it can: a step that is possible is
\* eventually taken.
SpecRun == Init /\ [][NextRun]_vars /\ WF_vars(NextRun)

(***************************************************************************)
(* The size option alone: every short string as --redownload-if-smaller,   *)
(* for one script and an empty working directory                           *)
(***************************************************************************)
MaxSizeLen == 4

\* The characters the size strings are made of.
SizeChars == {"5", ".", "K", "k", "M", "m", "B", "b", "T"}

SizeStrings == UNION {[1..n -> SizeChars] : n \in 0..MaxSizeLen}

InitBytes ==
    /\ instructionFile = "layout"
    /\ downloadOnly = <<>>
    /\ redownloadArg \in SizeStrings
    /\ skipPdfs = FALSE
    /\ fs = MkFs({})
    /\ fs0 = fs
    /\ directives = <<>>
    /\ threshold = NoThreshold
    /\ pc = "main"
    /\ error = ""
    /\ row = 0
    /\ filepath = <<>>
    /\ cookies = <<>>
    /\ browser = "none"
    /\ log = <<>>
    /\ prev = "none"
    /\ closing = {}

NextBytes ==
    \/ Main
    \/ ReadInstructions
    \/ CreateOutputDirs
    \/ LaunchBrowser
    \/ SaveText
    \/ CloseBrowser
    \/ ZipDirectory

SpecBytes == InitBytes /\ [][NextBytes]_vars

(***************************************************************************)
(* Properties                                                              *)
(***************************************************************************)
MaxOf(S) == CHOOSE x \in S : \A y \in S : y <= x

\* The entries of the log, and those of the save directives that went to the
\* network or the renderer.
Entries == {log[i] : i \in DOMAIN log}

\* The blob of the nearest cookies directive before 0-based row r, <<>> if none.
NearestBlob(r) ==
    LET before == {k \in 1..r : directives[k][1] = W_cookies}
    IN IF before = {} THEN <<>> ELSE directives[MaxOf(before)][2]

\* What the blobs of the instruction files decode to.
DecodedBlob(blob) ==
    CASE blob = Blob1 -> <<"a", "=", "1">>
      [] blob = Blob2 -> <<"b", "=", "2">>
      [] blob = Blob3 -> <<"a", "=", "1", ";", " ", "k", "=", "v", "=", "w">>
      [] blob = <<>> -> <<>>

\* C1: every fetch and every render is given the decoded blob of the nearest
\* cookies directive listed before its directive, the empty string if none is:
\* a cookies directive replaces the cookie string, an earlier blob is never
\* applied after a later one.
C1_CookieScoping ==
    \A e \in Entries : e.net # "none" => e.cookies = DecodedBlob(NearestBlob(e.row))

\* The first document was rendered with a=1 and the attachment listed after
\* the second cookies directive was fetched with b=2.
C1_Witness ==
    /\ instructionFile = "cookies"
    /\ Len(log) = 2
    /\ log[1].net = "render" /\ log[1].source = UrlA /\ log[1].cookies = <<"a", "=", "1">>
    /\ log[2].net = "get" /\ log[2].source = UrlB /\ log[2].cookies = <<"b", "=", "2">>

\* Every save directive of the run was skipped as already present, with no
\* fetch, no render and no change to the file system.
AllAlreadyPresent ==
    \A e \in Entries :
        e.decision = "Skip-AlreadyPresent" /\ e.net = "none" /\ e.changed = {} /\ ~e.done

\* C2 as stated: a run without filter or threshold, after a successful run
\* without filter or threshold, skips every save directive and performs no
\* fetch and no render.
C2_RerunIdempotent_AsStated ==
    (prev \in {"plain", "plain-skip-pdfs"} /\ downloadOnly = <<>> /\ redownloadArg = <<>>)
        => AllAlreadyPresent

\* C2: a run without filter or threshold, after a successful run without
\* filter, threshold or --skip-pdfs, skips every save directive as already
\* present and performs no fetch and no render.
C2_RerunIdempotent ==
    (prev = "plain" /\ downloadOnly = <<>> /\ redownloadArg = <<>>) => AllAlreadyPresent

\* A second run has finished after skipping a document, an attachment's text
\* and another document.
C2_Witness ==
    /\ prev = "plain" /\ downloadOnly = <<>> /\ redownloadArg = <<>>
    /\ pc = "exit0"
    /\ instructionFile = "pdf-first"
    /\ Len(log) = 3
    /\ \A e \in Entries : e.decision = "Skip-AlreadyPresent"

\* C3: every path a save directive creates, overwrites or deletes lies in the
\* output directory, and a script with an absolute destination or one with a
\* ".." segment fails to parse.
C3_InsideOutputDir ==
    /\ \A e \in Entries : \A q \in e.changed \cup e.deleted : IsUnder(q, filepath)
    /\ (instructionFile \in {"traversal", "absolute"} /\ pc \notin {"main", "read"})
           => pc = "exit1" /\ log = <<>>

\* C4: under --download-only F a directive whose destination does not begin
\* with F/ is skipped: no fetch, no render, and no path created, changed or
\* deleted, whether its destination exists or not.
C4_FilterSkipsOthers ==
    downloadOnly # <<>> =>
        \A e \in Entries :
            ~StartsWith(e.dest, downloadOnly \o Slash) =>
                /\ e.decision = "Skip-NotOfInterest"
                /\ e.net = "none"
                /\ e.changed = {} /\ e.deleted = {}
                /\ ~e.done

\* Under filter alice, bob/responses.pdf was skipped while it existed.
C4_Witness ==
    /\ downloadOnly = U_alice
    /\ \E e \in Entries :
          /\ e.dest = In(U_bob, N_responses)
          /\ e.existed
          /\ e.decision = "Skip-NotOfInterest"

\* C5 as stated: under --download-only F the directive for F/responses.pdf is
\* fetched or rendered on every run.
C5_InterestFetched_AsStated ==
    downloadOnly # <<>> =>
        \A e \in Entries : e.dest = downloadOnly \o SlashResponses => e.net # "none"

\* C5: under --download-only F the directive for F/responses.pdf is always
\* decided Fetch, never skipped as already present; it is fetched or rendered
\* unless it is a save-pdf of a run with --skip-pdfs, which renders nothing.
C5_InterestFetched ==
    downloadOnly # <<>> =>
        \A e \in Entries :
            e.dest = downloadOnly \o SlashResponses =>
                /\ e.decision = "Fetch"
                /\ IF e.verb = W_savepdf /\ skipPdfs THEN e.net = "none" /\ ~e.done
                   ELSE e.net # "none"

\* Under filter alice, alice/responses.pdf existed and was rendered again.
C5_Witness ==
    /\ downloadOnly = U_alice
    /\ \E e \in Entries :
          /\ e.dest = In(U_alice, N_responses)
          /\ e.existed
          /\ e.net = "render" /\ e.done

\* C6: under --download-only F the decision is Skip-NotOfInterest exactly
\* when the destination does not begin with F/; every directive under F/,
\* document or attachment, is decided Fetch.
C6_FilterExactlyPrefix ==
    downloadOnly # <<>> =>
        \A e \in Entries :
            /\ e.decision = "Skip-NotOfInterest" <=> ~StartsWith(e.dest, downloadOnly \o Slash)
            /\ StartsWith(e.dest, downloadOnly \o Slash) => e.decision = "Fetch"

\* The destination of the directive at the head of the queue, resolved.
HeadTarget == PathResolve(filepath, Head(actions)[4])

\* Without a filter and with a numeric threshold, the directive at the head
\* of the queue is for an existing file named responses.pdf in a directory.
C7_Case ==
    /\ pc = "loop" /\ actions # <<>> /\ Head(actions)[1] \in SaveVerbs
    /\ downloadOnly = <<>>
    /\ threshold.set /\ ~threshold.nan
    /\ EndsWith(Head(actions)[4], SlashResponses)
    /\ Exists(fs, HeadTarget)

C8_WholeAttemptPresent ==
    (pc = "exit0" /\ downloadOnly = <<>> /\ ~skipPdfs /\ threshold.set) =>
        \A k \in 2..Len(directives) :
            directives[k][1] \in SaveVerbs =>
                Exists(fs, PathResolve(filepath, directives[k][4]))

\* The retained lines of an instruction file.
KeptLines(name) == SelectSeq(SplitLines(FileContent(name)), KeepLine)

\* The instruction files whose first retained line is not zip-name <name>,
\* and those with no retained line.
NotZipNameFirst ==
    {name \in InstructionFiles :
        /\ KeptLines(name) # <<>>
        /\ LET first == SplitTokens(KeptLines(name)[1])
           IN ~(Len(first) = 2 /\ first[1] = W_zipname)}

NoDirective == {name \in InstructionFiles : KeptLines(name) = <<>>}

\* The run has stopped with an error and has had no effect: no directory or
\* file was created, changed or deleted, the browser was not launched, and
\* no directive was carried out.
FailedBeforeAnyEffect ==
    /\ pc = "exit1"
    /\ fs = fs0
    /\ browser = "none"
    /\ log = <<>> /\ row = 0 /\ cookies = <<>>

\* C9: a script whose first retained line is not zip-name <name>, or that
\* has no retained line, fails before any directory is created, before the
\* browser is launched and before any fetch; the first action of a script
\* that parses is zip-name with its name.
C9_ParseFirst ==
    /\ (instructionFile \in NotZipNameFirst \cup NoDirective /\ pc \notin {"main", "read"})
           => FailedBeforeAnyEffect
    /\ directives # <<>> => Len(directives[1]) = 2 /\ directives[1][1] = W_zipname

\* The script that starts with save-file was refused for its first line.
C9_Witness ==
    /\ instructionFile = "no-zip-name"
    /\ instructionFile \in NotZipNameFirst
    /\ pc = "exit1" /\ error = "first-not-zip-name"

\* The characters a destination may not contain.
DisallowedInDestination ==
    {"NUL", "\t", "\n", "\f", "\r", "US", "DEL", "APC",
     "*", "?", "&", "<", ">", "\"", "GRAVE", "|", "'", ":", "\\"}

\* The instruction files with a save directive whose destination holds one.
BadDestination ==
    {name \in InstructionFiles :
        \E k \in 1..Len(KeptLines(name)) :
            LET t == SplitTokens(KeptLines(name)[k])
            IN /\ Len(t) = 4 /\ t[1] \in SaveVerbs
               /\ \E i \in 1..Len(t[4]) : t[4][i] \in DisallowedInDestination}

\* C10: a script with a save directive whose destination holds a disallowed
\* character fails to parse, and no fetch, render or file write is made for
\* any of its directives.
C10_BadDestinationRejected ==
    (instructionFile \in BadDestination /\ pc \notin {"main", "read"})
        => FailedBeforeAnyEffect

\* The script with alice/a*b.txt between two valid directives was refused.
C10_Witness ==
    /\ instructionFile = "bad-char"
    /\ instructionFile \in BadDestination
    /\ pc = "exit1" /\ error = "filename-chars"
    /\ fs = fs0

\* The characters of ^[-_.a-zA-Z0-9]+$
ZipNameChars ==
    {"-", "_", "."}
        \cup {"a", "b", "c", "d", "e", "f", "g", "h", "i", "j", "k", "l", "m",
              "n", "o", "p", "q", "r", "s", "t", "u", "v", "w", "x", "y", "z"}
        \cup {"A", "B", "C", "D", "E", "F", "G", "H", "I", "J", "K", "L", "M",
              "N", "O", "P", "Q", "R", "S", "T", "U", "V", "W", "X", "Y", "Z"}
        \cup {"0", "1", "2", "3", "4", "5", "6", "7", "8", "9"}

\* C11: row 0 of a script that parses is zip-name and a name that matches
\* ^[-_.a-zA-Z0-9]+$; a script with any other name fails to parse.
C11_ZipNameForm ==
    directives # <<>> =>
        /\ Len(directives[1]) = 2
        /\ directives[1][1] = W_zipname
        /\ directives[1][2] # <<>>
        /\ \A i \in 1..Len(directives[1][2]) : directives[1][2][i] \in ZipNameChars

\* A unit in upper case.
UpperUnit(u) == [i \in 1..Len(u) |-> ToUpper(u[i])]

\* The lengths n for which s is n digits and then a unit B, KB, MB or GB in
\* any letter case: s is exactly of the form <integer><unit> if there is one.
IntegerLengths(s) ==
    {n \in 1..(Len(s) - 1) :
        /\ \A i \in 1..n : s[i] \in {"0", "1", "2", "3", "4", "5", "6", "7", "8", "9"}
        /\ UpperUnit(SubSeq(s, n + 1, Len(s))) \in {<<"B">>, <<"K", "B">>, <<"M", "B">>, <<"G", "B">>}}

\* The multiplier of a unit.
Multiplier(u) ==
    CASE u = <<"B">> -> 1
      [] u = <<"K", "B">> -> 1024
      [] u = <<"M", "B">> -> 1024 * 1024
      [] u = <<"G", "B">> -> 1024 * 1024 * 1024

\* The byte count of a string of the form <integer><unit>.
ByteCount(s) ==
    LET n == CHOOSE k \in IntegerLengths(s) : TRUE
    IN DecimalValue(SubSeq(s, 1, n)) * Multiplier(UpperUnit(SubSeq(s, n + 1, Len(s))))

\* C12: once main has parsed a size option of the form <integer><unit>, the
\* unit B, KB, MB or GB in any letter case, the threshold is the number
\* integer x multiplier; 5kb and 5KB both give 5120.
C12_ParseBytesAnyCase ==
    (IntegerLengths(redownloadArg) # {} /\ pc # "main") =>
        /\ threshold.set /\ ~threshold.nan
        /\ threshold.bytes = ByteCount(redownloadArg)
        /\ redownloadArg \in {<<"5", "K", "B">>, <<"5", "k", "b">>} => threshold.bytes = 5120

\* C13: a size option that is not of the form <integer><unit> ends the run
\* with exit 1 and the invalid-size error before the instruction file is read
\* and before any directory is created; parseBytes fails on the empty string.
C13_InvalidSizeRejected ==
    /\ parseBytes(<<>>).error
    /\ (redownloadArg # <<>> /\ IntegerLengths(redownloadArg) = {} /\ pc # "main") =>
           /\ pc = "exit1" /\ error = "invalid-size"
           /\ fs = fs0 /\ directives = <<>> /\ browser = "none" /\ log = <<>>

\* The operation of a directive was to be carried out and did not complete.
OperationFailed(e) ==
    e.decision = "Fetch" /\ ~e.done /\ ~(skipPdfs /\ e.verb = W_savepdf)

\* The entry of path q in file system f, "absent" if there is none.
EntryOf(f, q) == IF q \in DOMAIN f THEN f[q] ELSE [kind |-> "absent", size |-> 0]

\* C14: a directive whose operation fails is the last one a run carries
\* out, and the run ends there with exit 1: the failing step removes and
\* changes nothing but what the directive itself deleted or was writing,
\* no archive is written (an archive there is the one the run found), and
\* the only step after it is the start of another process; no directive
\* is carried out twice.
C14_AbortOnFailure ==
    [][/\ \A i \in DOMAIN log' :
              /\ OperationFailed(log'[i]) => (i = Len(log') /\ pc' = "exit1" /\ error' # "")
              /\ \A j \in DOMAIN log' : i < j => log'[i].row < log'[j].row
       /\ (pc = "loop" /\ pc' = "exit1") =>
              LET e == log'[Len(log')]
              IN /\ Len(log') = Len(log) + 1
                 /\ OperationFailed(e)
                 /\ \A q \in DOMAIN fs \ (e.deleted \cup {e.filename}) :
                        q \in DOMAIN fs' /\ fs'[q] = fs[q]
       /\ (pc' = "exit1" /\ filepath' # <<>>) =>
              EntryOf(fs', ZipPath(filepath'))
                  \in {EntryOf(fs0', ZipPath(filepath')), [kind |-> "absent", size |-> 0]}
       /\ pc = "exit1" => (pc' = "main" /\ fs' = fs /\ log' = <<>>)]_vars

\* The first document of three directives could not be rendered: the run
\* ended with exit 1, two directives were never carried out, and no
\* archive was written.
C14_Witness ==
    /\ instructionFile = "pdf-first"
    /\ pc = "exit1" /\ error = "render"
    /\ Len(log) = 1 /\ OperationFailed(log[1])
    /\ row = 2 /\ Len(directives) = 4
    /\ ZipPath(filepath) \notin DOMAIN fs

\* The archive of the run, once written.
Archive == fs[ZipPath(filepath)].archive

\* The files under the output directory, as paths relative to it.
OutputFiles ==
    {SubSeq(q, Len(filepath) + 1, Len(q)) :
        q \in {r \in DOMAIN fs : Len(r) > Len(filepath) /\ StartsWith(r, filepath)
                                    /\ fs[r].kind = "file"}}

\* C15: when a run has finished, the archive beside the output directory
\* holds one entry for each file under the output directory, files skipped
\* as already present included, at <archiveName>/<path relative to the
\* output directory> and with the file's content, and no other entry.
C15_ArchiveContent ==
    pc = "exit0" =>
        /\ ZipPath(filepath) = PathDirname(filepath) \o <<filepath[Len(filepath)] \o <<".", "z", "i", "p">> >>
        /\ DOMAIN Archive = {<<filepath[Len(filepath)]>> \o rel : rel \in OutputFiles}
        /\ \A rel \in OutputFiles :
               Archive[<<filepath[Len(filepath)]>> \o rel] = fs[filepath \o rel]

\* A run that skipped alice/responses.pdf and bob/responses.pdf as already
\* present and wrote alice/note.txt afresh has archived all three and the
\* attachments found beside them, X/alice/note.txt with the text written.
C15_Witness ==
    /\ instructionFile = "pdf-first"
    /\ pc = "exit0"
    /\ filepath = BaseDir
    /\ \E e \in Entries : e.decision = "Skip-AlreadyPresent" /\ e.dest = In(U_bob, N_responses)
    /\ {<<N_X, U_alice, N_responses>>, <<N_X, U_alice, N_note>>, <<N_X, U_bob, N_responses>>,
        <<N_X, U_bob, N_att>>} \subseteq DOMAIN Archive
    /\ Archive[<<N_X, U_bob, N_responses>>].size = 6000

\* What is decided for a directive from the options, from whether its
\* destination existed and from the size it had; --skip-pdfs plays no part.
DecisionWithoutFlag(e) ==
    IF downloadOnly # <<>>
    THEN IF StartsWith(e.dest, downloadOnly \o SlashResponses) THEN "Fetch"
         ELSE "Skip-NotOfInterest"
    ELSE IF ~e.existed THEN "Fetch"
    ELSE IF /\ threshold.set /\ ~threshold.nan
            /\ EndsWith(e.dest, SlashResponses)
            /\ e.sizeBefore < threshold.bytes
         THEN "Fetch"
         ELSE "Skip-AlreadyPresent"

\* C16: under --skip-pdfs no save-pdf directive starts a render or leaves a
\* file at its destination that was not there before, so that the next run
\* without the flag and without a filter decides Fetch for it; save-file and
\* save-text directives are decided by the same rule with and without the
\* flag and, when decided Fetch, are carried out (or the run stops at them).
C16_SkipPdfs ==
    /\ \A i \in DOMAIN log :
           LET e == log[i]
           IN IF e.verb = W_savepdf
              THEN skipPdfs =>
                       /\ e.net = "none" /\ ~e.done
                       /\ Exists(fs, e.filename) => (e.existed /\ e.filename \notin e.deleted)
              ELSE /\ e.decision = DecisionWithoutFlag(e)
                   /\ e.decision = "Fetch" =>
                          (e.done \/ (i = Len(log) /\ pc \in {"exit1", "waiting"}))
                   /\ (e.verb = W_savefile /\ e.done) => e.net = "get"
    /\ (prev = "plain-skip-pdfs" /\ ~skipPdfs /\ downloadOnly = <<>>) =>
           \A e \in Entries : (e.verb = W_savepdf /\ ~e.existed) => e.decision = "Fetch"

\* A run under --skip-pdfs has finished: the attachment was fetched, the
\* document was decided Fetch and not rendered, and no file is at its
\* destination.
C16_Witness ==
    /\ skipPdfs /\ pc = "exit0"
    /\ instructionFile = "attachment-first"
    /\ Len(log) = 2
    /\ log[1].verb = W_savefile /\ log[1].net = "get" /\ log[1].done
    /\ log[2].verb = W_savepdf /\ log[2].decision = "Fetch" /\ log[2].net = "none"
    /\ ~Exists(fs, log[2].filename)

\* C17: a save-text directive that is carried out leaves at its destination
\* a file whose whole content is the directive's text with each underscore
\* replaced by a space and every other character as it was: the same
\* length, no underscore left.  Hello_World gives Hello World.
C17_SaveText ==
    [][(pc = "loop" /\ actions # <<>> /\ Head(actions)[1] = W_savetext
            /\ log'[Len(log')].done) =>
          LET text == Head(actions)[2]
              written == fs'[HeadTarget]
          IN /\ written.kind = "file"
             /\ Len(written.content) = Len(text) /\ written.size = Len(text)
             /\ \A i \in 1..Len(text) :
                    /\ written.content[i] # "_"
                    /\ written.content[i] = (IF text[i] = "_" THEN " " ELSE text[i])
             /\ text = HelloWorld =>
                    written.content = <<"H", "e", "l", "l", "o", " ", "W", "o", "r", "l", "d">>]_vars

\* save-text Hello_World as note.txt has written Hello World to note.txt in
\* the output directory.
C17_Witness ==
    /\ instructionFile = "layout"
    /\ Len(log) = 1 /\ log[1].verb = W_savetext /\ log[1].done
    /\ log[1].source = HelloWorld /\ log[1].dest = N_note
    /\ fs[BaseDir \o <<N_note>>].content
           = <<"H", "e", "l", "l", "o", " ", "W", "o", "r", "l", "d">>

\* C18: in a run, the output directory and its parent are created only in
\* the step that follows parsing, once, and are there before the browser is
\* launched; the browser is launched once, after the script has been parsed
\* and the directories set up and before any directive is carried out; it
\* is closed once, when no directive is left; and the archive is written
\* only with the browser closed.
C18_PhaseOrder ==
    [][/\ \A d \in {filepath', PathResolve(Cwd, W_output)} :
              (d # <<>> /\ ~Exists(fs, d) /\ Exists(fs', d)) =>
                  (pc = "mkdirs" /\ browser = "none" /\ log = <<>>)
       /\ (browser # "open" /\ browser' = "open") =>
              /\ browser = "none" /\ pc = "launch"
              /\ directives # <<>> /\ log = <<>> /\ row = 1
              /\ IsDir(fs, filepath) /\ IsDir(fs, PathResolve(Cwd, W_output))
       /\ Len(log') > Len(log) => (browser = "open" /\ row >= 1)
       /\ (browser # "closed" /\ browser' = "closed") =>
              (browser = "open" /\ row = Len(directives) /\ pc = "loop" /\ pc' = "zip")
       /\ (browser = "closed" /\ pc' # "main") =>
              (browser' = "closed" /\ log' = log /\ cookies' = cookies)
       /\ (pc' = "exit0" /\ pc # "exit0") =>
              /\ pc = "zip" /\ browser = "closed"
              /\ ~Exists(fs0, ZipPath(filepath)) => ~Exists(fs, ZipPath(filepath))]_vars

\* A run that found no output directory has finished: the directories were
\* made, directives were carried out, the browser is closed and the archive
\* is written.
C18_Witness ==
    /\ pc = "exit0" /\ browser = "closed"
    /\ ~Exists(fs0, PathResolve(Cwd, W_output))
    /\ IsDir(fs, filepath)
    /\ Len(log) = 3
    /\ Exists(fs, ZipPath(filepath))

\* C19: a process that has ended, with exit 0 or with exit 1, has closed
\* the browser it launched.
C19_BrowserClosedAtExit ==
    pc \in {"exit0", "exit1"} => browser \in {"none", "closed"}

\* C20: a directive decided Fetch does not end the run for want of a
\* directory: when a run has ended because a directory of a destination
\* could not be made, something that is not a directory stands where an
\* ancestor of the destination should be.
C20_NestedDirectories ==
    (pc = "exit1" /\ error = "mkdir" /\ log # <<>>) =>
        LET target == log[Len(log)].filename
        IN \E n \in 1..(Len(target) - 1) :
               Exists(fs, SubSeq(target, 1, n)) /\ ~IsDir(fs, SubSeq(target, 1, n))

\* A step of the loop that takes the directive at the head of the queue.
DirectiveStep == pc = "loop" /\ actions # <<>> /\ row' = row + 1

\* C21: the directives are carried out one at a time, in the order of the
\* script and each once: a step of the loop takes the directive at the head
\* of the queue and no other, the rows of the log increase, and when a
\* directive begins (its checkPath included) no file written by an earlier
\* directive is still being closed.
C21_Sequential ==
    [][/\ DirectiveStep =>
              /\ closing = {}
              /\ actions' = Tail(actions)
              /\ Len(log') \in {Len(log), Len(log) + 1}
              /\ Len(log') = Len(log) + 1 => log'[Len(log')].row = row
       /\ \A i, j \in DOMAIN log' : i < j => log'[i].row < log'[j].row]_vars

\* The order alone: what holds whether or not the file has been closed.
SequentialOrder ==
    [][/\ DirectiveStep =>
              /\ actions' = Tail(actions)
              /\ Len(log') \in {Len(log), Len(log) + 1}
              /\ Len(log') = Len(log) + 1 => log'[Len(log')].row = row
       /\ \A i, j \in DOMAIN log' : i < j => log'[i].row < log'[j].row]_vars

\* The first word of the k-th retained line of an instruction file.
FirstWord(name, k) == SplitTokens(KeptLines(name)[k])[1]

\* The instruction files with a zip-name line after the first retained line,
\* or with a cookies or save line as the first retained line.
ZipNameMisplaced ==
    {name \in InstructionFiles :
        \/ \E k \in 2..Len(KeptLines(name)) : FirstWord(name, k) = W_zipname
        \/ /\ KeptLines(name) # <<>>
           /\ FirstWord(name, 1) \in {W_cookies} \cup SaveVerbs}

\* C22: the actions of a script that parsed hold zip-name at row 0 and
\* nowhere else; a script with a zip-name line at a later row, or with a
\* cookies, save-file, save-pdf or save-text line at row 0, fails to parse
\* (the run ends in error with no action taken off the script).
C22_OneZipNameFirst ==
    /\ directives # <<>> => {i \in DOMAIN directives : directives[i][1] = W_zipname} = {1}
    /\ (instructionFile \in ZipNameMisplaced /\ pc \notin {"main", "read"})
           => (FailedBeforeAnyEffect /\ error # "" /\ directives = <<>>)

\* The script with a second zip-name line was refused for that line.
C22_Witness ==
    /\ instructionFile = "two-zip-names"
    /\ instructionFile \in ZipNameMisplaced
    /\ pc = "exit1" /\ error = "unrecognised-action"
    /\ directives = <<>>

\* The decisions of checkPath that skip a directive.
SkipDecisions == {"Skip-AlreadyPresent", "Skip-NotOfInterest"}

\* C23: a directive that checkPath decides to skip (already present, or
\* not of interest) starts no request and no render, and the step that
\* carries it out leaves the file system (no directory made, no file or
\* directory changed or removed), the cookie string, the browser and the
\* streams being closed as they were; the run goes on.
C23_SkipNoEffect ==
    [][(DirectiveStep /\ Len(log') = Len(log) + 1
            /\ log'[Len(log')].decision \in SkipDecisions) =>
          LET e == log'[Len(log')]
          IN /\ e.net = "none" /\ ~e.done
             /\ e.changed = {} /\ e.deleted = {}
             /\ fs' = fs
             /\ cookies' = cookies
             /\ browser' = browser
             /\ closing' = closing
             /\ pc' = "loop" /\ error' = error]_vars

\* Under a filter a run has finished in which a directive for another
\* subject was skipped, and the directory of its destination was not made.
C23_Witness ==
    /\ pc = "exit0"
    /\ downloadOnly # <<>>
    /\ \E e \in Entries :
           /\ e.decision = "Skip-NotOfInterest"
           /\ ~Exists(fs, PathDirname(e.filename))

\* The pairs of a cookie string: the pieces between its semicolons, each
\* without the blanks around it.
RECURSIVE Trim(_)
Trim(t) ==
    IF t # <<>> /\ Head(t) = " " THEN Trim(Tail(t))
    ELSE IF t # <<>> /\ t[Len(t)] = " " THEN Trim(SubSeq(t, 1, Len(t) - 1))
    ELSE t

RECURSIVE PairsOf(_)
PairsOf(str) ==
    LET semis == {i \in 1..Len(str) : str[i] = ";"}
    IN IF semis = {} THEN <<Trim(str)>>
       ELSE <<Trim(SubSeq(str, 1, MinOf(semis) - 1))>>
                \o PairsOf(SubSeq(str, MinOf(semis) + 1, Len(str)))

\* The cookie of a pair: its name before the first "=", and all that follows
\* the first "=" as its value.
CookieOfPair(pair, host) ==
    LET eq == MinOf({i \in 1..Len(pair) : pair[i] = "="})
    IN [name |-> SubSeq(pair, 1, eq - 1), value |-> SubSeq(pair, eq + 1, Len(pair)),
        defined |-> TRUE, domain |-> host]

\* C24: a render with a non-empty cookie string sets one cookie per pair of
\* the string, in order, with the pair's name, its whole value (all that
\* follows the first "=") and the host of the rendered URL as domain (m for
\* both URLs of the scripts); with the empty cookie string it sets none.
C24_CookieObjects ==
    \A e \in Entries :
        e.net = "render" =>
            IF e.cookies = <<>> THEN e.setCookies = <<>>
            ELSE LET pairs == PairsOf(e.cookies)
                 IN /\ Len(e.setCookies) = Len(pairs)
                    /\ \A i \in 1..Len(pairs) :
                           e.setCookies[i] = CookieOfPair(pairs[i], <<"m">>)

\* The same with the value of a cookie left open.
CookieNamesAndDomains ==
    \A e \in Entries :
        e.net = "render" =>
            IF e.cookies = <<>> THEN e.setCookies = <<>>
            ELSE LET pairs == PairsOf(e.cookies)
                 IN /\ Len(e.setCookies) = Len(pairs)
                    /\ \A i \in 1..Len(pairs) :
                           /\ e.setCookies[i].name = CookieOfPair(pairs[i], <<"m">>).name
                           /\ e.setCookies[i].domain = <<"m">>

\* C25: a file is at the destination of a save-file directive of this run
\* only if it was there before or the fetch that wrote it ran to its end:
\* a fetch that was started and did not complete (the run has aborted on a
\* transport error, say) leaves no file where none was, so that the next
\* run without a filter decides Fetch for it.
C25_NoFileFromFailedFetch ==
    \A e \in Entries :
        (e.verb = W_savefile /\ e.net = "get" /\ ~e.done /\ ~e.existed)
            => ~Exists(fs, e.filename)

\* The files that were below the output directory when the run started.
FilesAtStart ==
    IF filepath = <<>> THEN {}
    ELSE {q \in DOMAIN fs0 : q # filepath /\ IsUnder(q, filepath) /\ fs0[q].kind = "file"}

\* C26: under --skip-pdfs every file that was below the output directory
\* when the run started is still there, unchanged, at every point of the
\* run and when it has ended, whatever the size threshold and whatever the
\* output directory held.
C26_SkipPdfsKeepsFiles ==
    skipPdfs => \A q \in FilesAtStart : q \in DOMAIN fs /\ fs[q] = fs0[q]

\* The same for the runs without a numeric size threshold.
SkipPdfsKeepsFilesWithoutThreshold ==
    (skipPdfs /\ ~(threshold.set /\ ~threshold.nan) /\ pc \notin {"main"})
        => \A q \in FilesAtStart : q \in DOMAIN fs /\ fs[q] = fs0[q]

\* C27: every run ends: when every operation that can complete or fail
\* eventually does, the process reaches exit 0 or exit 1, whatever becomes
\* of its fetches (an error of the request, a response that breaks off, a
\* failed write).
C27_Terminates ==
    <>(pc \in {"exit0", "exit1"})

====
